---- MODULE Spec2Model ----
(***************************************************************************)
(* A model of the workgraph package: workers, requests, the lock-free      *)
(* self-dependency walk of Promise.Await, explicit and usage-fault         *)
(* resolution, delegation through NewWorker, the worker cleanup and Once.  *)
(*                                                                         *)
(* Every goroutine is a thread t that drives the worker tworker[t]; the    *)
(* package requires a worker to be used by one goroutine at a time.  Each  *)
(* atomic load, store or compare-and-swap of the source is one step.  A    *)
(* critical section that only touches the state its mutex guards and never *)
(* blocks inside is one step, taken when the mutex is free.                *)
(*                                                                         *)
(* The callers of the package are goroutines that either choose their      *)
(* calls freely (prog[t] = Free) or run a fixed program, a sequence of     *)
(* calls (the programs of the package's tests, and races between calls).   *)
(***************************************************************************)
EXTENDS Integers, Sequences, FiniteSets, TLC

\* ------------------------------------------------------------------ bounds
\* The size of the tables
MaxWorkers == 3
MaxRequests == 4
\* What a freely choosing caller may allocate
MaxSpawn == 2
MaxOpen == 2
\* The longest list a collecting walk is scheduled to build
MaxFailed == 4

Workers == 1..MaxWorkers
Threads == Workers
Requests == 1..MaxRequests
Onces == {"A", "B"}

NoWorker == 0
NoReq == 0
NoThread == 0
NoOnce == "none"
NoF == "none"

\* ------------------------------------------------------------------ values
\* The boxed value of a result: NilValue is the nil interface, ZeroValue is
\* the zero value of T and "v" is some other value of T.
NilValue == "nil"
ZeroValue == "zero"

NilErr == [kind |-> "nil", ids |-> << >>]
UserErr == [kind |-> "user", ids |-> << >>]

\* What callers pass to Report: ReportSuccess(v), ReportError(err) with a
\* concrete T, and ReportError(err) with an interface type T, whose zero
\* value is the nil interface.
ReportInputs == {<<"v", NilErr>>, <<ZeroValue, UserErr>>, <<NilValue, UserErr>>}

\* An ErrSelfDependency that names the awaited request only.
ErrSelfDependency_first(ids) == [kind |-> "selfdep", ids |-> <<ids[1]>>]

ErrSelfDependency(ids) == [kind |-> "selfdep", ids |-> ids]
ErrUnresolved(r) == [kind |-> "unresolved", ids |-> <<r>>]

\* requestResult; the nil *requestResult is NoResult.
NoResult == [set |-> FALSE, value |-> NilValue, err |-> NilErr]
newExplicitResult(value, err) == [set |-> TRUE, value |-> value, err |-> err]
newUsageFaultResult(err) == [set |-> TRUE, value |-> NilValue, err |-> err]
IsExplicit(rr) == rr.value # NilValue

\* A resultRet that hands out the boxed value as it is stored.
resultRet_raw(rr) == [value |-> rr.value, err |-> rr.err]

\* resultRet: the type assertion fails only for the nil value of a usage
\* fault, and then yields the zero value of T.
resultRet(rr) ==
  [value |-> IF rr.value = NilValue THEN ZeroValue ELSE rr.value, err |-> rr.err]

VARIABLES
  workers,        \* the workerInner objects allocated so far
  requests,       \* the requestInner objects allocated so far
  responsible,    \* requestInner.responsible
  result,         \* requestInner.result
  mu,             \* requestInner.mu: the thread holding it, or NoThread
  waiters,        \* requestInner.cond: the threads blocked in cond.Wait
  awaiting,       \* workerInner.awaiting
  responsibleFor, \* workerInner.responsibleFor
  dropped,        \* the workers whose cleanup has run
  oncePromise,    \* Once.promise: its request, or NoReq while nil
  onceReqId,      \* Once.req_id
  tworker,        \* the worker each goroutine drives
  th,             \* each goroutine's position and locals
  prog,           \* each goroutine's remaining program, or Free
  scen,           \* the name of the program the goroutines run, or "free"
  panicked,       \* the panic message that ended the process, or "none"
  panicAt,        \* the goroutine and the request of the call that panicked
  heap,           \* where the requestInner objects lie, which are still
                  \* allocated, their weak handles, and the RequestIDs taken
  origin,         \* per worker, the worker whose NewWorker call made it and
                  \* the requests that call delegated (kept in delegation runs)
  firstRet,       \* per request, the result the first returning Await returned
  reported,       \* per request, what the Report that returned last was given
                  \* and by which worker; n flips with every such Report
  invoked,        \* per Once, the functions its Do calls have started
  called,         \* per Once, the functions its Do calls were given, in the
                  \* order in which the calls took Once.mu
  cyc,            \* per goroutine, whether the request of its current Await
                  \* has been on a cycle among unresolved requests
  everCycle       \* whether a cycle among unresolved requests ever existed

vars == <<workers, requests, responsible, result, mu, waiters, awaiting,
          responsibleFor, dropped, oncePromise, onceReqId, tworker, th, prog,
          scen, panicked, panicAt, heap, origin, firstRet, reported, invoked, called, cyc, everCycle>>

\* The variables of the graph, of Once and of the callers, to name what an
\* action leaves alone.
objs == <<workers, requests>>
onceVars == <<oncePromise, onceReqId, invoked, called>>

\* ------------------------------------------------------------ thread state
Idle == [pc |-> "idle", req |-> NoReq, curReq |-> NoReq, curWorker |-> NoWorker,
         nextReq |-> NoReq, collect |-> FALSE, failed |-> << >>, idx |-> 0,
         got |-> NoResult, waited |-> FALSE, self |-> FALSE, once |-> NoOnce,
         newW |-> NoWorker, deleg |-> {}]
Off == [Idle EXCEPT !.pc = "off"]
Dead == [Idle EXCEPT !.pc = "dead"]

\* ---------------------------------------------------------------- programs
Op(k, r, val, err, o, f) == [k |-> k, r |-> r, val |-> val, err |-> err, o |-> o, f |-> f]
Free == <<Op("free", NoReq, ZeroValue, NilErr, NoOnce, NoF)>>
OpAwait(r) == Op("await", r, ZeroValue, NilErr, NoOnce, NoF)
OpReport(r, val, err) == Op("report", r, val, err, NoOnce, NoF)
\* Report(w, val, err) with the val and err the preceding Await returned
OpForward(r) == Op("forward", r, ZeroValue, NilErr, NoOnce, NoF)
OpDo(o, f) == Op("do", NoReq, ZeroValue, NilErr, o, f)
\* NewWorker(r) with the resolver of request r delegated
OpNewWorker(r) == Op("newworker", r, ZeroValue, NilErr, NoOnce, NoF)
\* The goroutine lets go of its Worker handle, which is then cleaned up
OpDrop == Op("drop", NoReq, ZeroValue, NilErr, NoOnce, NoF)

\* A goroutine may make the call op when it chooses freely or when op is the
\* next call of its program.
May(t, op) == prog[t] = Free \/ (prog[t] # << >> /\ Head(prog[t]) = op)
Advance(t) ==
  prog' = IF prog[t] = Free THEN prog ELSE [prog EXCEPT ![t] = Tail(@)]

\* ------------------------------------------------------ the waiting graph
\* Worker w is on a cycle among unresolved requests when following awaiting
\* and responsible edges through unset requests only leads back to w.
RECURSIVE Reaches(_, _, _, _, _, _)
Reaches(aw, resp, res, w, target, n) ==
  IF n = 0 \/ aw[w] = NoReq THEN FALSE
  ELSE LET r == aw[w] IN
       IF res[r].set THEN FALSE
       ELSE IF resp[r] = target THEN TRUE
       ELSE Reaches(aw, resp, res, resp[r], target, n - 1)

OnCycle(aw, resp, res, w) == Reaches(aw, resp, res, w, w, MaxWorkers)
CycleIn(aw, resp, res) == \E w \in Workers : OnCycle(aw, resp, res, w)
ReqOnCycle(aw, resp, res, r) ==
  r # NoReq /\ \E w \in Workers : aw[w] = r /\ OnCycle(aw, resp, res, w)

\* The history variables, updated by every step.
Hist ==
  /\ everCycle' = (everCycle \/ CycleIn(awaiting', responsible', result'))
  /\ cyc' = [t \in Threads |->
               IF th'[t].pc = "ret" THEN cyc[t]
               ELSE IF th'[t].pc \in {"idle", "off", "dead"} THEN FALSE
               ELSE cyc[t] \/ (awaiting'[tworker[t]] = th'[t].req /\
                     ReqOnCycle(awaiting', responsible', result', th'[t].req))]

Running == panicked = "none"
NoPanic == [t |-> NoThread, r |-> NoReq]
NoOrigin == [by |-> NoWorker, reqs |-> {}]

\* The workers NewWorker may still allocate: all of them when the run is
\* about delegation, MaxSpawn otherwise.
SpawnCap == IF scen \in {"deleg", "handoff"} THEN MaxWorkers ELSE MaxSpawn

\* No Report on the request has returned yet.
NoReport == [set |-> FALSE, res |-> NoResult, by |-> NoWorker, n |-> 0]

Panic(t, r, msg) ==
  /\ panicked' = msg
  /\ panicAt' = [t |-> t, r |-> r]
  /\ UNCHANGED <<heap, origin, objs, responsible, result, mu, waiters, awaiting,
                 responsibleFor, dropped, onceVars, tworker, th, prog, scen,
                 firstRet, reported, cyc, everCycle>>

Min(S) == CHOOSE x \in S : \A y \in S : x <= y

\* ------------------------------------------------- requestInner and its id
\* The addresses a requestInner can be allocated at; one that was reclaimed
\* leaves its address free for the next allocation.
Addrs == 1..MaxRequests
NoAddr == 0
NoHandle == 0
EmptyHeap ==
  [addr |-> [r \in Requests |-> NoAddr], live |-> {},
   handle |-> [r \in Requests |-> NoHandle], next |-> 1, seen |-> {}]

\* &requestInner{}: the new object takes the lowest free address.
newObject(hp, r) ==
  [hp EXCEPT !.addr[r] = Min(Addrs \ {hp.addr[q] : q \in hp.live}),
             !.live = @ \cup {r}]

\* The heap after requests R were allocated in turn.
RECURSIVE HeapOf(_)
HeapOf(R) ==
  IF R = {} THEN EmptyHeap
  ELSE LET r == CHOOSE x \in R : \A y \in R : y <= x
       IN newObject(HeapOf(R \ {r}), r)

\* weak.Make(ri): the runtime keeps one handle per object, made on the
\* first call and kept when the object is reclaimed.
weakMake(hp, r) ==
  IF hp.handle[r] # NoHandle THEN hp
  ELSE [hp EXCEPT !.handle[r] = hp.next, !.next = @ + 1]

\* A ResultID that holds the address of the object.
ResultID_addr(hp, r) == [ptr |-> hp.addr[r]]

\* requestInner.ResultID: RequestID{ptr: weak.Make(ri)}.
ResultID(hp, r) == [ptr |-> weakMake(hp, r).handle[r]]

\* RequestID.Equal
Equal(rid, other) == rid = other

\* The requests NewRequest may still open: all of them when the run is
\* about request ids, MaxOpen otherwise.
OpenCap == IF scen = "ids" THEN MaxRequests ELSE MaxOpen

\* ------------------------------------------------------------------- Init
\* The state before the program has called the package.
Init ==
  /\ workers = {}
  /\ requests = {}
  /\ responsible = [r \in Requests |-> NoWorker]
  /\ result = [r \in Requests |-> NoResult]
  /\ mu = [r \in Requests |-> NoThread]
  /\ waiters = [r \in Requests |-> {}]
  /\ awaiting = [w \in Workers |-> NoReq]
  /\ responsibleFor = [w \in Workers |-> {}]
  /\ dropped = {}
  /\ oncePromise = [o \in Onces |-> NoReq]
  /\ onceReqId = [o \in Onces |-> NoReq]
  /\ tworker = [t \in Threads |-> t]
  /\ th = [t \in Threads |-> Off]
  /\ prog = [t \in Threads |-> Free]
  /\ scen = "free"
  /\ panicked = "none"
  /\ panicAt = NoPanic
  /\ heap = EmptyHeap
  /\ origin = [w \in Workers |-> NoOrigin]
  /\ firstRet = [r \in Requests |-> NoResult]
  /\ reported = [r \in Requests |-> NoReport]
  /\ invoked = [o \in Onces |-> << >>]
  /\ called = [o \in Onces |-> << >>]
  /\ cyc = [t \in Threads |-> FALSE]
  /\ everCycle = FALSE

\* --------------------------------------------------------------- NewWorker
\* NewWorker() without delegated resolvers: a fresh workerInner that awaits
\* nothing and is responsible for nothing, and a goroutine to drive it.
NewWorkerPlain ==
  /\ Running
  /\ Cardinality(workers) < SpawnCap
  /\ LET n == Min(Workers \ workers) IN
       /\ prog[n] = Free
       /\ workers' = workers \cup {n}
       /\ th' = [th EXCEPT ![n] = Idle]
  /\ UNCHANGED <<requests, responsible, result, mu, waiters, awaiting,
                 responsibleFor, dropped, oncePromise, onceReqId, tworker,
                 prog, scen, panicked, panicAt, heap, origin, firstRet,
                 reported, invoked, called>>
  /\ Hist

\* NewWorker(delegated...): the caller passes resolvers its worker is
\* responsible for (the documented caller contract); the new workerInner is
\* allocated first and the delegation loop then runs one store at a time.
NewWorkerBegin(t, D) ==
  /\ Running
  /\ th[t].pc = "idle"
  /\ \/ prog[t] = Free
     \/ \E r \in Requests : D = {r} /\ May(t, OpNewWorker(r))
  /\ Cardinality(workers) < SpawnCap
  /\ D # {}
  /\ \A r \in D : responsible[r] = tworker[t]
  /\ LET n == Min(Workers \ workers) IN
       /\ workers' = workers \cup {n}
       /\ th' = [th EXCEPT ![t] = [@ EXCEPT !.pc = "nw", !.newW = n, !.deleg = D]]
       /\ origin' = IF scen \in {"deleg", "handoff"}
                       THEN [origin EXCEPT ![n] = [by |-> tworker[t], reqs |-> D]]
                       ELSE origin
  /\ Advance(t)
  /\ UNCHANGED <<requests, responsible, result, mu, waiters, awaiting,
                 responsibleFor, dropped, oncePromise, onceReqId, tworker,
                 scen, panicked, panicAt, heap, firstRet, reported, invoked,
                 called>>
  /\ Hist

\* A setResponsibleWorker that stores nil.
setResponsibleWorker_nil(resp, r, new) == [resp EXCEPT ![r] = NoWorker]

\* requestInner.setResponsibleWorker
setResponsibleWorker(resp, r, new) == [resp EXCEPT ![r] = new]

\* A NewWorker that returns the new worker without running the loop.
NewWorkerDelegate_skip(t) ==
  /\ Running
  /\ th[t].pc = "nw"
  /\ th' = [th EXCEPT ![t] = Idle, ![th[t].newW] = Idle]
  /\ UNCHANGED <<workers, requests, responsible, result, mu, waiters, awaiting,
                 responsibleFor, dropped, oncePromise, onceReqId, tworker,
                 prog, scen, panicked, panicAt, heap, origin, firstRet,
                 reported, invoked, called>>
  /\ Hist

\* One iteration of the delegation loop; after the last one NewWorker
\* returns and the new worker's goroutine may start.
NewWorkerDelegate(t) ==
  /\ Running
  /\ th[t].pc = "nw"
  /\ \E r \in th[t].deleg :
       /\ responsible' = setResponsibleWorker(responsible, r, th[t].newW)
       /\ IF th[t].deleg = {r}
            THEN th' = [th EXCEPT ![t] = Idle, ![th[t].newW] = Idle]
            ELSE th' = [th EXCEPT ![t] = [@ EXCEPT !.deleg = @ \ {r}]]
  /\ UNCHANGED <<workers, requests, result, mu, waiters, awaiting,
                 responsibleFor, dropped, oncePromise, onceReqId, tworker,
                 prog, scen, panicked, panicAt, heap, origin, firstRet,
                 reported, invoked, called>>
  /\ Hist

\* -------------------------------------------------------------- NewRequest
\* NewRequest(responsibleWorker) -> newRequestInner: responsible is set and
\* the result is nil.  Nothing is inserted into the worker's responsibleFor.
NewRequest(t) ==
  /\ Running
  /\ th[t].pc = "idle"
  /\ prog[t] = Free
  /\ Cardinality(requests) < OpenCap
  /\ LET r == Min(Requests \ requests) IN
       /\ requests' = requests \cup {r}
       /\ heap' = newObject(heap, r)
       /\ responsible' = setResponsibleWorker(responsible, r, tworker[t])
  /\ UNCHANGED <<workers, result, mu, waiters, awaiting, responsibleFor,
                 dropped, oncePromise, onceReqId, tworker, th, prog, scen,
                 panicked, panicAt, origin, firstRet, reported, invoked,
                 called>>
  /\ Hist

\* ------------------------------------------------------------- resolution
\* A resolveUsageFault that stores without looking at the present result.
resolveUsageFault_overwrite(res, r, err) ==
  [res EXCEPT ![r] = newUsageFaultResult(err)]

\* requestInner.resolveUsageFault, under ri.mu: the new result map ...
resolveUsageFault(res, r, err) ==
  IF res[r].set THEN res ELSE [res EXCEPT ![r] = newUsageFaultResult(err)]

\* A resolution that stores the result and wakes nobody.
Broadcast_none(res, newres, r) == waiters

\* ... and cond.Broadcast, which empties the wait set when a result was stored.
Broadcast(res, newres, r) ==
  IF res[r] # newres[r] THEN [waiters EXCEPT ![r] = {}] ELSE waiters

\* A resolveExplicit that lets a report supersede a usage fault.
resolveExplicit_supersede(rr, val, err) ==
  IF rr.set /\ IsExplicit(rr) THEN "panic: request resolved multiple times"
  ELSE IF val = NilValue THEN "panic: explicit resolution with nil value"
  ELSE "store"

\* A resolveExplicit that stores a second explicit resolution over the first.
resolveExplicit_again(rr, val, err) ==
  IF rr.set /\ ~IsExplicit(rr) THEN "ignore"
  ELSE IF val = NilValue THEN "panic: explicit resolution with nil value"
  ELSE "store"

\* requestInner.resolveExplicit once the responsible worker is checked: the
\* outcome for the stored result rr and the reported val, err.
resolveExplicit(rr, val, err) ==
  IF rr.set
    THEN IF IsExplicit(rr) THEN "panic: request resolved multiple times"
         ELSE "ignore"
    ELSE IF val = NilValue THEN "panic: explicit resolution with nil value"
         ELSE "store"

\* The value and error a goroutine whose Await has returned holds.
RetValue(t) == resultRet(th[t].got).value
RetErr(t) == resultRet(th[t].got).err
Returned(t, r) == th[t].pc = "ret" /\ th[t].req = r

\* A resolveExplicit that accepts every worker.
wrongWorker_never(t, r) == FALSE

\* requestInner.resolveExplicit, first check: the resolving worker is not the
\* worker stored as responsible.
wrongWorker(t, r) == tworker[t] # responsible[r]

\* Resolver.Report -> requestInner.resolveExplicit, one critical section
\* under ri.mu.  A goroutine reports either values of its own or, in a
\* program, what its Await just returned.
Report(t, r, val, err) ==
  /\ Running
  /\ r \in requests
  /\ \/ th[t].pc = "idle" /\ May(t, OpReport(r, val, err))
     \/ /\ th[t].pc = "ret" /\ prog[t] # Free /\ May(t, OpForward(r))
        /\ val = RetValue(t) /\ err = RetErr(t)
  /\ mu[r] = NoThread
  /\ IF wrongWorker(t, r)
       THEN Panic(t, r, "request was resolved by the wrong worker")
     ELSE IF resolveExplicit(result[r], val, err) \notin {"ignore", "store"}
       THEN Panic(t, r, resolveExplicit(result[r], val, err))
     ELSE /\ result' = IF resolveExplicit(result[r], val, err) = "store"
                         THEN [result EXCEPT ![r] = newExplicitResult(val, err)]
                         ELSE result
          /\ waiters' = Broadcast(result, result', r)
          /\ th' = [th EXCEPT ![t] = Idle]
          /\ reported' = [reported EXCEPT ![r] =
                            [set |-> TRUE, res |-> newExplicitResult(val, err),
                             by |-> tworker[t], n |-> 1 - reported[r].n]]
          /\ Advance(t)
          /\ UNCHANGED <<workers, requests, responsible, mu, awaiting,
                         responsibleFor, dropped, oncePromise, onceReqId,
                         tworker, scen, panicked, panicAt, heap, origin,
                         firstRet, invoked, called>>
          /\ Hist

\* ----------------------------------------------------------- Promise.Await
\* Promise.Await returns resultRet(rr) for request r: the goroutine is back
\* in its caller with that value and error in hand.
Return(t, r, rr) ==
  /\ th' = [th EXCEPT ![t] = [Idle EXCEPT !.pc = "ret", !.req = r, !.got = rr,
                                          !.waited = th[t].waited,
                                          !.self = th[t].self,
                                          !.once = th[t].once]]
  /\ firstRet' = IF firstRet[r].set THEN firstRet ELSE [firstRet EXCEPT ![r] = rr]

\* The caller takes the returned value and goes on to a call that does not
\* use it.
AwaitDone(t) ==
  /\ Running
  /\ th[t].pc = "ret"
  /\ ~(prog[t] # << >> /\ Head(prog[t]).k = "forward")
  /\ th' = [th EXCEPT ![t] = Idle]
  /\ UNCHANGED <<workers, requests, responsible, result, mu, waiters, awaiting,
                 responsibleFor, dropped, oncePromise, onceReqId, tworker,
                 prog, scen, panicked, panicAt, heap, origin, firstRet,
                 reported, invoked, called>>
  /\ Hist

\* A Promise.Await that does not look at the awaiting slot first.
awaitsAlready_never(t) == FALSE

\* Promise.Await: requestingWorker.inner.awaiting.Load() is not nil.
awaitsAlready(t) == awaiting[tworker[t]] # NoReq

\* Promise.Await, first check: a worker already awaiting something panics.
\* self records whether the caller awaits an unresolved request that its own
\* worker is responsible for.
AwaitEntry(t, r) ==
  IF awaitsAlready(t)
    THEN Panic(t, r, "worker awaits multiple promises")
    ELSE /\ th' = [th EXCEPT ![t] =
                     [@ EXCEPT !.pc = "a_fast", !.req = r,
                               !.self = (responsible[r] = tworker[t] /\ ~result[r].set)]]
         /\ Advance(t)
         /\ UNCHANGED <<workers, requests, responsible, result, mu, waiters,
                        awaiting, responsibleFor, dropped, oncePromise,
                        onceReqId, tworker, scen, panicked, panicAt, heap,
                        origin, firstRet, reported, invoked, called>>
         /\ Hist

AwaitCall(t, r) ==
  /\ Running
  /\ th[t].pc = "idle"
  /\ r \in requests
  /\ May(t, OpAwait(r))
  /\ AwaitEntry(t, r)

\* A Promise.Await that returns what result.Load() gave, nil or not.
AwaitFast_unchecked(t) ==
  /\ Running
  /\ th[t].pc = "a_fast"
  /\ Return(t, th[t].req, result[th[t].req])
  /\ UNCHANGED <<workers, requests, responsible, result, mu, waiters, awaiting,
                 responsibleFor, dropped, oncePromise, onceReqId, tworker,
                 prog, scen, panicked, panicAt, heap, origin, reported,
                 invoked, called>>
  /\ Hist

\* A Promise.Await without the fast path.
AwaitFast_slow(t) ==
  /\ Running
  /\ th[t].pc = "a_fast"
  /\ th' = [th EXCEPT ![t] = [@ EXCEPT !.pc = "a_cas"]]
  /\ UNCHANGED <<workers, requests, responsible, result, mu, waiters, awaiting,
                 responsibleFor, dropped, oncePromise, onceReqId, tworker,
                 prog, scen, panicked, panicAt, heap, origin, firstRet,
                 reported, invoked, called>>
  /\ Hist

\* Promise.Await, fast path: an already resolved request returns at once.
AwaitFast(t) ==
  /\ Running
  /\ th[t].pc = "a_fast"
  /\ IF result[th[t].req].set
       THEN Return(t, th[t].req, result[th[t].req])
       ELSE /\ th' = [th EXCEPT ![t] = [@ EXCEPT !.pc = "a_cas"]]
            /\ UNCHANGED firstRet
  /\ UNCHANGED <<workers, requests, responsible, result, mu, waiters, awaiting,
                 responsibleFor, dropped, oncePromise, onceReqId, tworker,
                 prog, scen, panicked, panicAt, heap, origin, reported,
                 invoked, called>>
  /\ Hist

\* requestInner.await: awaiting.CompareAndSwap(nil, ri).
AwaitCAS(t) ==
  /\ Running
  /\ th[t].pc = "a_cas"
  /\ IF awaiting[tworker[t]] # NoReq
       THEN Panic(t, th[t].req, "worker awaits multiple promises")
       ELSE /\ awaiting' = [awaiting EXCEPT ![tworker[t]] = th[t].req]
            /\ th' = [th EXCEPT ![t] = [@ EXCEPT !.pc = "walk", !.collect = FALSE]]
            /\ UNCHANGED <<workers, requests, responsible, result, mu, waiters,
                           responsibleFor, dropped, oncePromise, onceReqId,
                           tworker, prog, scen, panicked, panicAt, heap,
                           origin, firstRet, reported, invoked, called>>
            /\ Hist

\* An await that goes on to the lock whatever the walk found.
AfterWalk_blind(s, detected) ==
  [s EXCEPT !.pc = "lock", !.curReq = NoReq, !.curWorker = NoWorker,
            !.nextReq = NoReq]

\* The end of one detectSelfDependency call, back in requestInner.await:
\* the first walk either starts the collecting walk or goes on to the lock;
\* the collecting walk's boolean is discarded and its list is faulted.
AfterWalk(s, detected) ==
  IF ~s.collect
    THEN IF detected
           THEN [s EXCEPT !.pc = "walk", !.collect = TRUE, !.curReq = NoReq,
                          !.curWorker = NoWorker, !.nextReq = NoReq]
           ELSE [s EXCEPT !.pc = "lock", !.curReq = NoReq,
                          !.curWorker = NoWorker, !.nextReq = NoReq]
    ELSE [s EXCEPT !.pc = "fault", !.idx = 1, !.curReq = NoReq,
                   !.curWorker = NoWorker, !.nextReq = NoReq]

\* A detectSelfDependency that does not put the request it starts from on
\* its list.
WalkStart_empty(t) ==
  /\ Running
  /\ th[t].pc = "walk"
  /\ LET cw == responsible[th[t].req]
         s == [th[t] EXCEPT !.curReq = th[t].req, !.curWorker = cw,
                            !.failed = << >>]
     IN th' = [th EXCEPT ![t] = IF cw = tworker[t] THEN AfterWalk(s, TRUE)
                                ELSE [s EXCEPT !.pc = "w_await"]]
  /\ UNCHANGED <<workers, requests, responsible, result, mu, waiters, awaiting,
                 responsibleFor, dropped, oncePromise, onceReqId, tworker,
                 prog, scen, panicked, panicAt, heap, origin, firstRet,
                 reported, invoked, called>>
  /\ Hist

\* detectSelfDependency, before the loop: load currentReq.responsible and
\* start the list; then the loop condition.
WalkStart(t) ==
  /\ Running
  /\ th[t].pc = "walk"
  /\ LET cw == responsible[th[t].req]
         s == [th[t] EXCEPT !.curReq = th[t].req, !.curWorker = cw,
                            !.failed = IF th[t].collect THEN <<th[t].req>> ELSE << >>]
     IN th' = [th EXCEPT ![t] = IF cw = tworker[t] THEN AfterWalk(s, TRUE)
                                ELSE [s EXCEPT !.pc = "w_await"]]
  /\ UNCHANGED <<workers, requests, responsible, result, mu, waiters, awaiting,
                 responsibleFor, dropped, oncePromise, onceReqId, tworker,
                 prog, scen, panicked, panicAt, heap, origin, firstRet,
                 reported, invoked, called>>
  /\ Hist

\* Loop body: nextReq := currentWorker.awaiting.Load(); nil ends the walk.
\* A collecting walk is not scheduled to take a hop that would grow its list
\* beyond MaxFailed.
WalkAwaiting(t) ==
  /\ Running
  /\ th[t].pc = "w_await"
  /\ LET nr == awaiting[th[t].curWorker] IN
       /\ ~(th[t].collect /\ nr # NoReq /\ Len(th[t].failed) >= MaxFailed)
       /\ th' = [th EXCEPT ![t] =
                   IF th[t].curReq = NoReq \/ nr = NoReq
                     THEN AfterWalk(th[t], FALSE)
                     ELSE [th[t] EXCEPT !.pc = "w_fresh", !.nextReq = nr]]
  /\ UNCHANGED <<workers, requests, responsible, result, mu, waiters, awaiting,
                 responsibleFor, dropped, oncePromise, onceReqId, tworker,
                 prog, scen, panicked, panicAt, heap, origin, firstRet,
                 reported, invoked, called>>
  /\ Hist

\* Loop body: the freshness check currentReq.responsible.Load() != currentWorker.
WalkFresh(t) ==
  /\ Running
  /\ th[t].pc = "w_fresh"
  /\ th' = [th EXCEPT ![t] =
              IF responsible[th[t].curReq] # th[t].curWorker
                THEN AfterWalk(th[t], FALSE)
                ELSE [th[t] EXCEPT !.pc = "w_resp", !.curReq = th[t].nextReq]]
  /\ UNCHANGED <<workers, requests, responsible, result, mu, waiters, awaiting,
                 responsibleFor, dropped, oncePromise, onceReqId, tworker,
                 prog, scen, panicked, panicAt, heap, origin, firstRet,
                 reported, invoked, called>>
  /\ Hist

\* Loop body: currentWorker = currentReq.responsible.Load(), the append, and
\* the loop condition.
WalkResp(t) ==
  /\ Running
  /\ th[t].pc = "w_resp"
  /\ LET cw == responsible[th[t].curReq]
         s == [th[t] EXCEPT !.curWorker = cw,
                            !.failed = IF th[t].collect
                                         THEN Append(th[t].failed, th[t].curReq)
                                         ELSE th[t].failed]
     IN th' = [th EXCEPT ![t] = IF cw = tworker[t] THEN AfterWalk(s, TRUE)
                                ELSE [s EXCEPT !.pc = "w_await"]]
  /\ UNCHANGED <<workers, requests, responsible, result, mu, waiters, awaiting,
                 responsibleFor, dropped, oncePromise, onceReqId, tworker,
                 prog, scen, panicked, panicAt, heap, origin, firstRet,
                 reported, invoked, called>>
  /\ Hist

\* requestInner.await: one resolveUsageFault of the loop over failedResults,
\* each with the same ErrSelfDependency{RequestIDs: all collected ids}.
AwaitFault(t) ==
  /\ Running
  /\ th[t].pc = "fault"
  /\ LET r == th[t].failed[th[t].idx] IN
       /\ mu[r] = NoThread
       /\ result' = resolveUsageFault(result, r, ErrSelfDependency(th[t].failed))
       /\ waiters' = Broadcast(result, result', r)
       /\ th' = [th EXCEPT ![t] = IF th[t].idx = Len(th[t].failed)
                                    THEN [@ EXCEPT !.pc = "lock", !.idx = 0,
                                                   !.failed = << >>]
                                    ELSE [@ EXCEPT !.idx = @ + 1]]
  /\ UNCHANGED <<workers, requests, responsible, mu, awaiting, responsibleFor,
                 dropped, oncePromise, onceReqId, tworker, prog, scen,
                 panicked, panicAt, heap, origin, firstRet, reported, invoked,
                 called>>
  /\ Hist

\* requestInner.await: ri.mu.Lock(), and the relock when cond.Wait returns
\* after a broadcast.
AwaitLock(t) ==
  /\ Running
  /\ \/ th[t].pc = "lock"
     \/ th[t].pc = "wait" /\ t \notin waiters[th[t].req]
  /\ mu[th[t].req] = NoThread
  /\ mu' = [mu EXCEPT ![th[t].req] = t]
  /\ th' = [th EXCEPT ![t] = [@ EXCEPT !.pc = "check"]]
  /\ UNCHANGED <<workers, requests, responsible, result, waiters, awaiting,
                 responsibleFor, dropped, oncePromise, onceReqId, tworker,
                 prog, scen, panicked, panicAt, heap, origin, firstRet,
                 reported, invoked, called>>
  /\ Hist

\* The locked loop: a set result is returned after unlocking; otherwise
\* cond.Wait unlocks and joins the wait set.
AwaitCheck(t) ==
  /\ Running
  /\ th[t].pc = "check"
  /\ mu' = [mu EXCEPT ![th[t].req] = NoThread]
  /\ IF result[th[t].req].set
       THEN /\ th' = [th EXCEPT ![t] = [@ EXCEPT !.pc = "exit", !.got = result[th[t].req]]]
            /\ UNCHANGED waiters
       ELSE /\ th' = [th EXCEPT ![t] = [@ EXCEPT !.pc = "wait", !.waited = TRUE]]
            /\ waiters' = [waiters EXCEPT ![th[t].req] = @ \cup {t}]
  /\ UNCHANGED <<workers, requests, responsible, result, awaiting,
                 responsibleFor, dropped, oncePromise, onceReqId, tworker,
                 prog, scen, panicked, panicAt, heap, origin, firstRet,
                 reported, invoked, called>>
  /\ Hist

\* An await that returns without the deferred CompareAndSwap.
AwaitExit_keep(t) ==
  /\ Running
  /\ th[t].pc = "exit"
  /\ Return(t, th[t].req, th[t].got)
  /\ UNCHANGED <<workers, requests, responsible, result, mu, waiters, awaiting,
                 responsibleFor, dropped, oncePromise, onceReqId, tworker,
                 prog, scen, panicked, panicAt, heap, origin, reported,
                 invoked, called>>
  /\ Hist

\* The deferred awaiting.CompareAndSwap(ri, nil), then the return.
AwaitExit(t) ==
  /\ Running
  /\ th[t].pc = "exit"
  /\ IF awaiting[tworker[t]] # th[t].req
       THEN Panic(t, th[t].req, "worker awaits multiple promises")
       ELSE /\ awaiting' = [awaiting EXCEPT ![tworker[t]] = NoReq]
            /\ Return(t, th[t].req, th[t].got)
            /\ UNCHANGED <<workers, requests, responsible, result, mu, waiters,
                           responsibleFor, dropped, oncePromise, onceReqId,
                           tworker, prog, scen, panicked, panicAt, heap,
                           origin, reported, invoked, called>>
            /\ Hist

\* ------------------------------------------------------------ worker drop
RECURSIVE FaultAll(_, _)
FaultAll(res, S) ==
  IF S = {} THEN res
  ELSE LET r == Min(S) IN FaultAll(resolveUsageFault(res, r, ErrUnresolved(r)), S \ {r})

\* A handleDropped that stores ErrUnresolved in every request the worker is
\* the stored responsible worker of, resolved or not.
Drop_overwrite(t) ==
  /\ Running
  /\ th[t].pc = "idle"
  /\ May(t, OpDrop)
  /\ tworker[t] \notin dropped
  /\ dropped' = dropped \cup {tworker[t]}
  /\ result' = [r \in Requests |->
                  IF r \in requests /\ responsible[r] = tworker[t]
                    THEN newUsageFaultResult(ErrUnresolved(r)) ELSE result[r]]
  /\ waiters' = [r \in Requests |-> IF result'[r] # result[r] THEN {} ELSE waiters[r]]
  /\ th' = [th EXCEPT ![t] = Dead]
  /\ UNCHANGED <<workers, requests, responsible, mu, awaiting, responsibleFor,
                 oncePromise, onceReqId, tworker, prog, scen, panicked,
                 panicAt, heap, origin, firstRet, reported, invoked, called>>
  /\ Hist

\* The requests worker w has been responsible for: those it is responsible
\* for now and those it delegated to the workers it made.
EverResponsibleFor(w) ==
  {r \in requests : responsible[r] = w} \cup
  UNION {origin[n].reqs : n \in {m \in Workers : origin[m].by = w}}

\* A handleDropped that faults every unresolved request the worker has been
\* responsible for, delegated since or not.
Drop_stale(t) ==
  /\ Running
  /\ th[t].pc = "idle"
  /\ May(t, OpDrop)
  /\ tworker[t] \notin dropped
  /\ \A r \in EverResponsibleFor(tworker[t]) : mu[r] = NoThread
  /\ dropped' = dropped \cup {tworker[t]}
  /\ result' = FaultAll(result, EverResponsibleFor(tworker[t]))
  /\ waiters' = [r \in Requests |-> IF result'[r] # result[r] THEN {} ELSE waiters[r]]
  /\ th' = [th EXCEPT ![t] = Dead]
  /\ UNCHANGED <<workers, requests, responsible, mu, awaiting, responsibleFor,
                 oncePromise, onceReqId, tworker, prog, scen, panicked,
                 panicAt, heap, origin, firstRet, reported, invoked, called>>
  /\ Hist

\* The cleanup of a Worker handle its goroutine has let go:
\* workerInner.handleDropped faults every request in responsibleFor.
Drop(t) ==
  /\ Running
  /\ th[t].pc = "idle"
  /\ May(t, OpDrop)
  /\ tworker[t] \notin dropped
  /\ \A r \in responsibleFor[tworker[t]] : mu[r] = NoThread
  /\ dropped' = dropped \cup {tworker[t]}
  /\ result' = FaultAll(result, responsibleFor[tworker[t]])
  /\ waiters' = [r \in Requests |-> IF result'[r] # result[r] THEN {} ELSE waiters[r]]
  /\ th' = [th EXCEPT ![t] = Dead]
  /\ UNCHANGED <<workers, requests, responsible, mu, awaiting, responsibleFor,
                 oncePromise, onceReqId, tworker, prog, scen, panicked,
                 panicAt, heap, origin, firstRet, reported, invoked, called>>
  /\ Hist

\* ------------------------------------------------------------------- Next
AwaitStep(t) ==
  \/ AwaitFast(t) \/ AwaitCAS(t)
  \/ WalkStart(t) \/ WalkAwaiting(t) \/ WalkFresh(t) \/ WalkResp(t)
  \/ AwaitFault(t) \/ AwaitLock(t) \/ AwaitCheck(t) \/ AwaitExit(t)
  \/ AwaitDone(t)

\* Any program of freely choosing goroutines.
Next ==
  \/ NewWorkerPlain
  \/ \E t \in Threads, D \in SUBSET Requests : NewWorkerBegin(t, D)
  \/ \E t \in Threads : NewWorkerDelegate(t)
  \/ \E t \in Threads : NewRequest(t)
  \/ \E t \in Threads, r \in Requests, in \in ReportInputs : Report(t, r, in[1], in[2])
  \/ \E t \in Threads, r \in Requests : AwaitCall(t, r)
  \/ \E t \in Threads : AwaitStep(t)
  \/ \E t \in Threads : Drop(t)

Spec == Init /\ [][Next]_vars

\* ------------------------------------------------------- fixed programs
\* The responsible worker of request r and the program of goroutine t in a
\* setup that lists them for the requests and goroutines it uses.
RespOf(resp, r) == IF r <= Len(resp) THEN resp[r] ELSE NoWorker
ProgOf(pr, t) == IF t <= Len(pr) THEN pr[t] ELSE << >>

\* The state after a main goroutine has set up workers and requests with
\* NewWorker and NewRequest (resp maps each request to its responsible
\* worker, NoWorker for a request not opened) and started the goroutines t
\* that have a program pr[t], each with the worker tw[t].
SetupOn(name, resp, pr, tw) ==
  /\ workers = {tw[t] : t \in {u \in Threads : ProgOf(pr, u) # << >>}}
  /\ requests = {r \in Requests : RespOf(resp, r) # NoWorker}
  /\ responsible = [r \in Requests |-> RespOf(resp, r)]
  /\ result = [r \in Requests |-> NoResult]
  /\ mu = [r \in Requests |-> NoThread]
  /\ waiters = [r \in Requests |-> {}]
  /\ awaiting = [w \in Workers |-> NoReq]
  /\ responsibleFor = [w \in Workers |-> {}]
  /\ dropped = {}
  /\ oncePromise = [o \in Onces |-> NoReq]
  /\ onceReqId = [o \in Onces |-> NoReq]
  /\ tworker = tw
  /\ th = [t \in Threads |-> IF ProgOf(pr, t) # << >> THEN Idle ELSE Off]
  /\ prog = [t \in Threads |-> ProgOf(pr, t)]
  /\ scen = name
  /\ panicked = "none"
  /\ panicAt = NoPanic
  /\ heap = HeapOf({r \in Requests : RespOf(resp, r) # NoWorker})
  /\ origin = [w \in Workers |-> NoOrigin]
  /\ firstRet = [r \in Requests |-> NoResult]
  /\ reported = [r \in Requests |-> NoReport]
  /\ invoked = [o \in Onces |-> << >>]
  /\ called = [o \in Onces |-> << >>]
  /\ cyc = [t \in Threads |-> FALSE]
  /\ everCycle = FALSE

\* The same with one goroutine per worker.
Setup(name, resp, pr) == SetupOn(name, resp, pr, [t \in Threads |-> t])

\* TestSelfDependencyIndirect: main (1) opened requests 1 and 2 and
\* delegated them to workers 2 and 3, which await each other's request and
\* report what they got; main awaits request 1.
InitIndirect ==
  Setup("indirect", <<2, 3>>,
        <<  <<OpAwait(1)>>,
            <<OpAwait(2), OpForward(1)>>,
            <<OpAwait(1), OpForward(2)>> >>)

\* Three workers: worker 1 awaits request 1 of worker 2 while worker 2
\* awaits request 2 of worker 1; worker 2 then awaits request 3 of worker 3
\* and reports request 4; worker 3 awaits its own request 3 or request 4.
InitStale ==
  \E p3 \in {<<OpAwait(3)>>, <<OpAwait(4)>>} :
    Setup("stale", <<2, 1, 3, 2>>,
          <<  <<OpAwait(1)>>,
              <<OpAwait(2), OpAwait(3), OpReport(4, "v", NilErr)>>,
              p3 >>)

InitProg == InitIndirect \/ InitStale

NextProg ==
  \/ \E t \in Threads, r \in Requests : AwaitCall(t, r)
  \/ \E t \in Threads : AwaitStep(t)
  \/ \E t \in Threads, r \in Requests, val \in {ZeroValue, "v"},
        err \in {NilErr, UserErr} \cup
                {ErrSelfDependency(ids) : ids \in {<<1, 2>>, <<2, 1>>}} :
       Report(t, r, val, err)

SpecProg == InitProg /\ [][NextProg]_vars

\* The steps of goroutine t in a program.
ProgStep(t) ==
  \/ \E r \in Requests : AwaitCall(t, r)
  \/ AwaitStep(t)
  \/ \E r \in Requests, val \in {ZeroValue, "v"},
        err \in {NilErr, UserErr} \cup
                {ErrSelfDependency(ids) : ids \in {<<1, 2>>, <<2, 1>>}} :
       Report(t, r, val, err)

\* Workers 1 and 3 await request 1 while worker 2, responsible for it,
\* reports it, at any point of their Awaits.
InitWake ==
  Setup("wake", <<2>>,
        <<  <<OpAwait(1)>>, <<OpReport(1, "v", UserErr)>>, <<OpAwait(1)>> >>)

\* That program and TestSelfDependencyIndirect, where the waiters are woken
\* by a usage fault, under the Go scheduler, which lets every goroutine that
\* can take a step eventually take one.
FairSpecWake ==
  /\ InitWake \/ InitIndirect
  /\ [][NextProg]_vars
  /\ \A t \in Threads : WF_vars(ProgStep(t))

\* A worker used from two goroutines, against the contract of Worker:
\* goroutines 1 and 3 both hold worker 1 and await requests 1 and 2 of
\* worker 2 (or both request 1); worker 2 reports the two requests, or
\* awaits request 3, which worker 1 is responsible for.
InitShared ==
  \E p2 \in {<<OpReport(1, "v", NilErr), OpReport(2, "v", UserErr)>>,
              <<OpReport(2, "v", NilErr), OpReport(1, "v", NilErr)>>,
              <<OpAwait(3)>>},
     p3 \in {<<OpAwait(2)>>, <<OpAwait(1)>>} :
    SetupOn("shared", <<2, 2, 1>>, << <<OpAwait(1)>>, p2, p3 >>,
            [t \in Threads |-> IF t = 3 THEN 1 ELSE t])

SpecShared == InitShared /\ [][NextProg]_vars

\* Delegation chains: worker 1 exists and every other worker is made by
\* NewWorker(delegated...), so that a request can be handed on twice.
InitDeleg ==
  /\ workers = {1}
  /\ requests = {}
  /\ responsible = [r \in Requests |-> NoWorker]
  /\ result = [r \in Requests |-> NoResult]
  /\ mu = [r \in Requests |-> NoThread]
  /\ waiters = [r \in Requests |-> {}]
  /\ awaiting = [w \in Workers |-> NoReq]
  /\ responsibleFor = [w \in Workers |-> {}]
  /\ dropped = {}
  /\ oncePromise = [o \in Onces |-> NoReq]
  /\ onceReqId = [o \in Onces |-> NoReq]
  /\ tworker = [t \in Threads |-> t]
  /\ th = [t \in Threads |-> IF t = 1 THEN Idle ELSE Off]
  /\ prog = [t \in Threads |-> Free]
  /\ scen = "deleg"
  /\ panicked = "none"
  /\ panicAt = NoPanic
  /\ heap = EmptyHeap
  /\ origin = [w \in Workers |-> NoOrigin]
  /\ firstRet = [r \in Requests |-> NoResult]
  /\ reported = [r \in Requests |-> NoReport]
  /\ invoked = [o \in Onces |-> << >>]
  /\ called = [o \in Onces |-> << >>]
  /\ cyc = [t \in Threads |-> FALSE]
  /\ everCycle = FALSE

NextDeleg ==
  \/ \E t \in Threads, D \in SUBSET Requests : NewWorkerBegin(t, D)
  \/ \E t \in Threads : NewWorkerDelegate(t)
  \/ \E t \in Threads : NewRequest(t)
  \/ \E t \in Threads, r \in Requests, in \in ReportInputs : Report(t, r, in[1], in[2])

SpecDeleg == InitDeleg /\ [][NextDeleg]_vars

\* Delegation while others await: workers 1 and 2 exist, worker 1 is
\* responsible for request 1 and worker 2 for request 2.  Worker 1 awaits
\* request 2 (and may report request 1 afterwards) while worker 2 hands
\* request 2 on to a third worker made by NewWorker(delegated...) and then
\* awaits request 1 or request 2, or lets go of its handle, which is cleaned
\* up; the third worker awaits request 1 and
\* reports what it got as request 2, or reports request 2 and awaits
\* request 1.
InitHandoff ==
  \E p1 \in {<<OpAwait(2)>>, <<OpAwait(2), OpReport(1, "v", NilErr)>>},
     p2 \in {<<OpNewWorker(2), OpAwait(1)>>, <<OpNewWorker(2), OpAwait(2)>>,
              <<OpNewWorker(2), OpDrop>>},
     p3 \in {<<OpAwait(1), OpForward(2)>>,
              <<OpReport(2, "v", NilErr), OpAwait(1)>>} :
    /\ workers = {1, 2}
    /\ requests = {1, 2}
    /\ responsible = [r \in Requests |-> RespOf(<<1, 2>>, r)]
    /\ result = [r \in Requests |-> NoResult]
    /\ mu = [r \in Requests |-> NoThread]
    /\ waiters = [r \in Requests |-> {}]
    /\ awaiting = [w \in Workers |-> NoReq]
    /\ responsibleFor = [w \in Workers |-> {}]
    /\ dropped = {}
    /\ oncePromise = [o \in Onces |-> NoReq]
    /\ onceReqId = [o \in Onces |-> NoReq]
    /\ tworker = [t \in Threads |-> t]
    /\ th = [t \in Threads |-> IF t \in {1, 2} THEN Idle ELSE Off]
    /\ prog = [t \in Threads |-> ProgOf(<<p1, p2, p3>>, t)]
    /\ scen = "handoff"
    /\ panicked = "none"
    /\ panicAt = NoPanic
    /\ heap = HeapOf({1, 2})
    /\ origin = [w \in Workers |-> NoOrigin]
    /\ firstRet = [r \in Requests |-> NoResult]
    /\ reported = [r \in Requests |-> NoReport]
    /\ invoked = [o \in Onces |-> << >>]
    /\ called = [o \in Onces |-> << >>]
    /\ cyc = [t \in Threads |-> FALSE]
    /\ everCycle = FALSE

NextHandoff ==
  \/ \E t \in Threads, D \in SUBSET Requests : NewWorkerBegin(t, D)
  \/ \E t \in Threads : NewWorkerDelegate(t)
  \/ \E t \in Threads, r \in Requests : AwaitCall(t, r)
  \/ \E t \in Threads : AwaitStep(t)
  \/ \E t \in Threads, r \in Requests, val \in {ZeroValue, "v"},
        err \in {NilErr, UserErr} \cup
                {ErrSelfDependency(ids) : ids \in {<<1, 2>>, <<2, 1>>}} :
       Report(t, r, val, err)
  \/ \E t \in Threads : Drop(t)

SpecHandoff == InitHandoff /\ [][NextHandoff]_vars

\* ------------------------------------------------------------ request ids
\* Resolver.RequestID -> requestInner.ResultID on a request the caller
\* still holds; the caller keeps the id.
TakeID(t, r) ==
  /\ Running
  /\ th[t].pc = "idle"
  /\ r \in heap.live
  /\ heap' = [weakMake(heap, r) EXCEPT
               !.seen = @ \cup {[req |-> r, id |-> ResultID(heap, r)]}]
  /\ UNCHANGED <<workers, requests, responsible, result, mu, waiters, awaiting,
                 responsibleFor, dropped, oncePromise, onceReqId, tworker, th,
                 prog, scen, panicked, panicAt, origin, firstRet, reported,
                 invoked, called>>
  /\ Hist

\* The garbage collector reclaims a requestInner nobody refers to any more:
\* its callers dropped the resolver and the promise, keeping only ids.
Reclaim(r) ==
  /\ Running
  /\ r \in heap.live
  /\ \A w \in Workers : awaiting[w] # r
  /\ \A t \in Threads : th[t].req # r
  /\ heap' = [heap EXCEPT !.live = @ \ {r}]
  /\ UNCHANGED <<workers, requests, responsible, result, mu, waiters, awaiting,
                 responsibleFor, dropped, oncePromise, onceReqId, tworker, th,
                 prog, scen, panicked, panicAt, origin, firstRet, reported,
                 invoked, called>>
  /\ Hist

\* Request ids: workers open requests, take their ids at any time, and let
\* requests go.
InitIds ==
  /\ workers = {}
  /\ requests = {}
  /\ responsible = [r \in Requests |-> NoWorker]
  /\ result = [r \in Requests |-> NoResult]
  /\ mu = [r \in Requests |-> NoThread]
  /\ waiters = [r \in Requests |-> {}]
  /\ awaiting = [w \in Workers |-> NoReq]
  /\ responsibleFor = [w \in Workers |-> {}]
  /\ dropped = {}
  /\ oncePromise = [o \in Onces |-> NoReq]
  /\ onceReqId = [o \in Onces |-> NoReq]
  /\ tworker = [t \in Threads |-> t]
  /\ th = [t \in Threads |-> Off]
  /\ prog = [t \in Threads |-> Free]
  /\ scen = "ids"
  /\ panicked = "none"
  /\ panicAt = NoPanic
  /\ heap = EmptyHeap
  /\ origin = [w \in Workers |-> NoOrigin]
  /\ firstRet = [r \in Requests |-> NoResult]
  /\ reported = [r \in Requests |-> NoReport]
  /\ invoked = [o \in Onces |-> << >>]
  /\ called = [o \in Onces |-> << >>]
  /\ cyc = [t \in Threads |-> FALSE]
  /\ everCycle = FALSE

NextIds ==
  \/ NewWorkerPlain
  \/ \E t \in Threads : NewRequest(t)
  \/ \E t \in Threads, r \in Requests : TakeID(t, r)
  \/ \E r \in Requests : Reclaim(r)

SpecIds == InitIds /\ [][NextIds]_vars

\* -------------------------------------------------------------------- Once
\* An isNil that takes every promise for nil.
isNil_always(p) == TRUE

\* Promise.isNil
isNil(p) == p = NoReq

\* The functions callers pass to Do, and the goroutine Do starts for the
\* first of them: ret, err := f(w); resolver.Report(w, ret, err).  A function
\* returns a value and an error at once, or first calls Do on the same Once
\* with the worker it was given and returns what that call returned; the
\* function callB of Once A calls Do on Once B with callA, which calls Do on
\* Once A with callB.
Functions == {"retV", "retE", "retNil", "other", "reenter", "reenterSelf",
              "callA", "callB"}
FProg(f, o, r) ==
  CASE f = "retV" -> <<OpReport(r, "v", NilErr)>>
    [] f = "retE" -> <<OpReport(r, "v", UserErr)>>
    [] f = "retNil" -> <<OpReport(r, NilValue, UserErr)>>
    [] f = "other" -> <<OpReport(r, "w", NilErr)>>
    [] f = "reenter" -> <<OpDo(o, "other"), OpForward(r)>>
    [] f = "reenterSelf" -> <<OpDo(o, "reenterSelf"), OpForward(r)>>
    [] f = "callB" -> <<OpDo("B", "callA"), OpForward(r)>>
    [] f = "callA" -> <<OpDo("A", "callB"), OpForward(r)>>

\* What a function that does not call Do returns.
FResult(f) == newExplicitResult(Head(FProg(f, NoOnce, NoReq)).val,
                                Head(FProg(f, NoOnce, NoReq)).err)

\* Once.Do from o.mu.Lock() to o.mu.Unlock(), one critical section: the
\* first call opens the request for the caller's worker, stores the promise
\* and the request id, and starts f on a new worker to which the request is
\* delegated.
DoCall(t, o, f) ==
  /\ Running
  /\ th[t].pc = "idle"
  /\ May(t, OpDo(o, f))
  /\ called' = [called EXCEPT ![o] = Append(@, f)]
  /\ IF isNil(oncePromise[o])
       THEN /\ Workers \ workers # {}
            /\ Requests \ requests # {}
            /\ LET r == Min(Requests \ requests)
                   n == Min(Workers \ workers)
               IN /\ requests' = requests \cup {r}
                  /\ heap' = newObject(heap, r)
                  /\ workers' = workers \cup {n}
                  /\ responsible' = setResponsibleWorker(
                       setResponsibleWorker(responsible, r, tworker[t]), r, n)
                  /\ oncePromise' = [oncePromise EXCEPT ![o] = r]
                  /\ onceReqId' = [onceReqId EXCEPT ![o] = r]
                  /\ invoked' = [invoked EXCEPT ![o] = Append(@, f)]
                  /\ prog' = [prog EXCEPT ![n] = FProg(f, o, r)]
                  /\ th' = [th EXCEPT ![t] = [Idle EXCEPT !.pc = "do", !.once = o],
                                      ![n] = Idle]
       ELSE /\ th' = [th EXCEPT ![t] = [Idle EXCEPT !.pc = "do", !.once = o]]
            /\ UNCHANGED <<requests, heap, workers, responsible, oncePromise,
                           onceReqId, invoked, prog>>
  /\ UNCHANGED <<result, mu, waiters, awaiting, responsibleFor, dropped,
                 tworker, scen, panicked, panicAt, origin, firstRet, reported>>
  /\ Hist

\* Once.Do, the last line: o.promise.Await(forWorker).
DoAwait(t) ==
  /\ Running
  /\ th[t].pc = "do"
  /\ AwaitEntry(t, oncePromise[th[t].once])

\* Once.RequestID
RequestID(o) == onceReqId[o]

\* The goroutine is in a Do call on o, or back from one.
InDo(t, o) == th[t].once = o
DoReturned(t, o) == th[t].pc = "ret" /\ th[t].once = o

\* Callers of one Once: workers 1 and 2 call Do concurrently, or worker 1
\* calls it twice, with functions that return at once (TestOnce_happy,
\* TestOnceFunc).
InitHappy ==
  \E f1, f2 \in {"retV", "retE", "retNil", "other"} :
    \/ Setup("happy", << >>, << <<OpDo("A", f1)>>, <<OpDo("A", f2)>> >>)
    \/ Setup("happy", << >>, << <<OpDo("A", f1), OpDo("A", f2)>> >>)

\* TestOnce_selfDependencyDirect and TestOnceFunc_selfDependencyDirect, alone
\* or with a second caller of the same Once.
InitReenter ==
  \E f \in {"reenter", "reenterSelf"} :
    \/ Setup("reenter", << >>, << <<OpDo("A", f)>> >>)
    \/ Setup("reenter", << >>, << <<OpDo("A", f)>>, <<OpDo("A", "other")>> >>)

InitOnce == InitHappy \/ InitReenter

StepOnce(t) ==
  \/ \E o \in Onces, f \in Functions : DoCall(t, o, f)
  \/ DoAwait(t)
  \/ AwaitStep(t)
  \/ \E r \in Requests, val \in {"v", "w", ZeroValue, NilValue},
        err \in {NilErr, UserErr} \cup {ErrSelfDependency(<<q>>) : q \in Requests}
                \cup {ErrSelfDependency(<<q, s>>) : q, s \in Requests} :
       Report(t, r, val, err)

NextOnce == \E t \in Threads : StepOnce(t)

SpecOnce == InitOnce /\ [][NextOnce]_vars

\* The re-entrant programs alone, where the scheduler lets every goroutine
\* that can take a step eventually take one.
FairSpecReenter ==
  InitReenter /\ [][NextOnce]_vars /\ \A t \in Threads : WF_vars(StepOnce(t))

\* Two Onces whose functions call each other: worker 1 calls Do on Once A
\* with callB.
InitMutual == Setup("mutual", << >>, << <<OpDo("A", "callB")>> >>)

FairSpecMutual ==
  InitMutual /\ [][NextOnce]_vars /\ \A t \in Threads : WF_vars(StepOnce(t))

\* ------------------------------------------------------------------ claims
IsSelfDep(rr) == rr.set /\ rr.err.kind = "selfdep"
IsUnresolved(rr) == rr.set /\ rr.err.kind = "unresolved"

\* C1: an Await whose request has been on a cycle among unresolved requests
\* returns ErrSelfDependency.
C1_CycleAwaitFails ==
  \A t \in Threads : (th[t].pc = "ret" /\ cyc[t]) => RetErr(t).kind = "selfdep"

\* C2: as long as no cycle among unresolved requests has ever existed, no
\* request is resolved with ErrSelfDependency or ErrUnresolved.
C2_NoSpuriousFault ==
  \A r \in Requests : (IsSelfDep(result[r]) \/ IsUnresolved(result[r])) => everCycle

\* C5: an Await by the worker responsible for the unresolved request returns
\* without waiting, with the zero value and ErrSelfDependency{[that request]}.
C5_DirectSelfDependency ==
  \A t \in Threads :
    (th[t].pc = "ret" /\ th[t].self) =>
      /\ ~th[t].waited
      /\ RetValue(t) = ZeroValue
      /\ RetErr(t) = ErrSelfDependency(<<th[t].req>>)

\* C3, as stated: once a Report on a request has returned, an Await on that
\* request that has returned holds exactly the reported value and error.
C3_AwaitReturnsReport ==
  \A t \in Threads, r \in Requests :
    (Returned(t, r) /\ reported[r].set) =>
      resultRet(th[t].got) = resultRet(reported[r].res)

\* C3, amended: once a Report on a request has returned, an Await on that
\* request that has returned holds the request's stored result, which is the
\* reported value and error unless a usage fault was stored first.
C3_ReportUnlessFaulted ==
  \A t \in Threads, r \in Requests :
    (Returned(t, r) /\ reported[r].set) =>
      /\ th[t].got = result[r]
      /\ IF IsExplicit(result[r])
           THEN resultRet(th[t].got) = resultRet(reported[r].res)
           ELSE RetErr(t).kind \in {"selfdep", "unresolved"} /\ RetValue(t) = ZeroValue

\* An Await that blocked before the Report has returned the reported result.
C3_Witness ==
  \E t \in Threads, r \in Requests :
    /\ Returned(t, r) /\ th[t].waited
    /\ reported[r].set /\ IsExplicit(result[r])

\* C4: every Await on a request that has returned holds the result that the
\* first Await to return from that request held.
C4_SameResolution ==
  \A t \in Threads, r \in Requests : Returned(t, r) => th[t].got = firstRet[r]

\* Two goroutines are back from Await on the same request, one of them
\* after blocking.
C4_Witness ==
  \E t, u \in Threads, r \in Requests :
    t # u /\ Returned(t, r) /\ Returned(u, r) /\ th[t].waited

\* The ids of an ErrSelfDependency name exactly requests 1 and 2.
BothIds(err) ==
  err.kind = "selfdep" /\ Len(err.ids) = 2 /\ {err.ids[1], err.ids[2]} = {1, 2}

\* C6, as stated: in TestSelfDependencyIndirect the main worker's Await on
\* request 1 returns an ErrSelfDependency with exactly the ids of requests 1
\* and 2, and every resolved request of the cycle holds that same error.
C6_SameErrorValue ==
  (scen = "indirect" /\ Returned(1, 1)) =>
    /\ BothIds(RetErr(1))
    /\ \A r \in {1, 2} : result[r].set => result[r].err = RetErr(1)

\* C6, amended: the main worker's Await on request 1 returns an
\* ErrSelfDependency with exactly the ids of requests 1 and 2, and every
\* resolved request of the cycle holds a usage fault with those two ids, in
\* the order in which the walk that stored it met them.
C6_BothIdsEverywhere ==
  (scen = "indirect" /\ Returned(1, 1)) =>
    /\ BothIds(RetErr(1))
    /\ \A r \in {1, 2} : result[r].set => (~IsExplicit(result[r]) /\ BothIds(result[r].err))

\* The main worker is back from Await and the two requests hold the ids in
\* different orders.
C6_Witness ==
  /\ scen = "indirect" /\ Returned(1, 1)
  /\ result[1].set /\ result[2].set /\ result[1].err # result[2].err

\* C7: a request whose responsible worker has been dropped is resolved with
\* ErrUnresolved carrying its id, unless it was resolved before.
C7_DroppedWorkerFaults ==
  \A r \in requests :
    responsible[r] \in dropped =>
      (result[r].set /\ (IsUnresolved(result[r]) => result[r].err = ErrUnresolved(r)))

\* C8: of the functions given to the Do calls of one Once, only the one
\* given to the first call is started, and it is started once.
C8_FirstFunctionOnce ==
  \A o \in Onces :
    /\ Len(invoked[o]) <= 1
    /\ \A i \in 1..Len(invoked[o]) : invoked[o][i] = called[o][1]

\* Two Do calls with different functions have been made on one Once.
C8_Witness ==
  \E o \in Onces :
    /\ Len(called[o]) = 2 /\ called[o][1] # called[o][2]
    /\ Len(invoked[o]) = 1
    /\ \E t \in Threads : DoReturned(t, o)

\* C9: a Do call on a Once whose function returns at once is not cut off by
\* a panic, and when it has returned it holds what the function returned.
C9_DoReturnsResultOfF ==
  \A t \in Threads, o \in Onces :
    (scen = "happy" /\ InDo(t, o)) =>
      /\ Running
      /\ DoReturned(t, o) => resultRet(th[t].got) = resultRet(FResult(called[o][1]))

\* The function started for the Once calls Do on that Once again.
Reentered(o) == invoked[o] # << >> /\ invoked[o][1] \in {"reenter", "reenterSelf"}

\* Every goroutine has made all the calls of its program and is back from
\* the last one.
Finished == \A t \in Threads : th[t].pc \in {"idle", "off"} /\ prog[t] = << >>

\* C10: when the function started for a Once calls Do on it again, no second
\* function is started, every Do call that returns, the nested one and the
\* outer one, returns the zero value and ErrSelfDependency{[Once.RequestID()]},
\* and every Do call returns: the goroutines finish their programs.
C10_ReentryFails ==
  /\ [](\A t \in Threads, o \in Onces :
          (Reentered(o) /\ DoReturned(t, o)) =>
            /\ Len(invoked[o]) = 1
            /\ RetValue(t) = ZeroValue
            /\ RetErr(t) = ErrSelfDependency(<<RequestID(o)>>))
  /\ (\E o \in Onces : Reentered(o)) ~> Finished

\* The nested Do call and the outer Do call, which blocked, are both back.
C10_Witness ==
  \E t, u \in Threads, o \in Onces :
    /\ Reentered(o) /\ t # u
    /\ DoReturned(t, o) /\ th[t].waited
    /\ DoReturned(u, o) /\ tworker[u] = responsible[oncePromise[o]]

\* C11: when the functions of Once A and Once B call Do on each other's
\* Once, every Do call on Once A that returns holds ErrSelfDependency, and
\* every Do call returns: the goroutines finish their programs.
C11_MutualReentryFails ==
  /\ [](\A t \in Threads :
          (scen = "mutual" /\ DoReturned(t, "A")) => RetErr(t).kind = "selfdep")
  /\ (scen = "mutual") ~> Finished

\* The outer Do call on one Once and the nested Do call on the same Once
\* are both back, and both Onces have started their functions.
C11_Witness ==
  \E t, u \in Threads, o \in Onces :
    /\ scen = "mutual" /\ t # u
    /\ DoReturned(t, o) /\ DoReturned(u, o)
    /\ \A p \in Onces : Len(invoked[p]) = 1

\* The panics a Report call ends in.
WrongWorkerPanic == "request was resolved by the wrong worker"
ReportPanics ==
  {WrongWorkerPanic, "panic: request resolved multiple times",
   "panic: explicit resolution with nil value"}

\* C12: a Report on a request by a worker that is not the stored responsible
\* worker never returns and never ends in another panic than the wrong-worker
\* one, whatever the request's resolution is; the panicking call leaves every
\* resolution and every responsible worker as they were.
C12_WrongWorkerPanics ==
  [][/\ \A r \in Requests :
          reported'[r] # reported[r] => reported'[r].by = responsible[r]
     /\ (Running /\ panicked' \in ReportPanics \ {WrongWorkerPanic}) =>
          tworker[panicAt'.t] = responsible[panicAt'.r]
     /\ (Running /\ panicked' = WrongWorkerPanic) =>
          /\ tworker[panicAt'.t] # responsible[panicAt'.r]
          /\ result' = result
          /\ responsible' = responsible]_vars

\* A Report by the wrong worker has panicked on a request that was already
\* resolved.
C12_Witness ==
  /\ panicked = WrongWorkerPanic
  /\ result[panicAt.r].set
  /\ tworker[panicAt.t] # responsible[panicAt.r]

MultiplePanic == "panic: request resolved multiple times"

\* C13: once a request holds an explicit resolution, no Report on it returns;
\* a Report on it by the responsible worker panics with "request resolved
\* multiple times"; the explicit resolution is never replaced, and every Await
\* on the request that has returned holds it.
C13_SecondReportPanics ==
  /\ [][\A r \in Requests : IsExplicit(result[r]) =>
          /\ reported'[r] = reported[r]
          /\ result'[r] = result[r]
          /\ (Running /\ panicked' \in ReportPanics /\ panicAt'.r = r
               /\ tworker[panicAt'.t] = responsible[r]) =>
                 panicked' = MultiplePanic]_vars
  /\ [](\A t \in Threads, r \in Requests :
          (Returned(t, r) /\ IsExplicit(result[r])) => th[t].got = result[r])

\* The second Report has panicked after an Await returned the first
\* resolution, which is still the stored one.
C13_Witness ==
  /\ panicked = MultiplePanic
  /\ \E t \in Threads :
       /\ Returned(t, panicAt.r)
       /\ th[t].got = result[panicAt.r]
       /\ result[panicAt.r] = reported[panicAt.r].res

\* The request holds a usage-fault resolution.
IsFault(rr) == rr.set /\ ~IsExplicit(rr)

\* C14: a request that holds a usage fault keeps it on every step, a Report on
\* it ends in no panic other than the wrong-worker one, so the responsible
\* worker's Report returns, and every Await on it that has returned holds the
\* fault.
C14_ReportAfterFaultIgnored ==
  /\ [][\A r \in Requests : IsFault(result[r]) =>
          /\ result'[r] = result[r]
          /\ (Running /\ panicked' \in ReportPanics /\ panicAt'.r = r) =>
               panicked' = WrongWorkerPanic]_vars
  /\ [](\A t \in Threads, r \in Requests :
          (Returned(t, r) /\ IsFault(result[r])) =>
             /\ th[t].got = result[r]
             /\ RetErr(t).kind \in {"selfdep", "unresolved"})

\* The responsible worker's Report on a faulted request has returned, and the
\* Await the same goroutine made after it has returned the fault.
C14_Witness ==
  \E t \in Threads, r \in Requests :
    /\ panicked = "none"
    /\ IsFault(result[r])
    /\ reported[r].set /\ reported[r].by = tworker[t]
    /\ reported[r].res # result[r]
    /\ Returned(t, r) /\ th[t].got = result[r]

\* C15 as stated: a Report that returns on a request holding a usage fault
\* replaces the fault by the reported resolution.
C15_ReportSupersedesFault ==
  [][\A r \in Requests :
       (IsFault(result[r]) /\ reported'[r] # reported[r]) =>
          result'[r] = reported'[r].res]_vars

\* C15, amended: a Report that returns on a request holding a usage fault
\* stores nothing and wakes nobody: the resolution after it is the fault,
\* not the reported value and error, and an Await on the request that has
\* returned holds the zero value and the fault's error.
C15_ReportKeepsFault ==
  /\ [][\A r \in Requests :
          (IsFault(result[r]) /\ reported'[r] # reported[r]) =>
             /\ result'[r] = result[r]
             /\ result'[r] # reported'[r].res
             /\ waiters' = waiters]_vars
  /\ [](\A t \in Threads, r \in Requests :
          (Returned(t, r) /\ reported[r].set /\ IsFault(result[r])) =>
             /\ RetValue(t) = ZeroValue
             /\ RetErr(t) = result[r].err)

\* Another worker's Await, which found the request resolved at once, has
\* returned the fault although the responsible worker's Report has returned.
C15_Witness ==
  \E u \in Threads, r \in Requests :
    /\ IsFault(result[r])
    /\ reported[r].set /\ reported[r].by # tworker[u]
    /\ Returned(u, r) /\ ~th[u].waited
    /\ RetErr(u).kind = "selfdep"

\* Goroutine t applies resolveUsageFault to the next request of its list.
FaultStep(t) == th[t].pc = "fault" /\ th'[t] # th[t]
FaultTarget(t) == th[t].failed[th[t].idx]

\* C16: resolveUsageFault applied to an unset request stores the usage fault
\* and empties the request's wait set; applied to a request that holds any
\* resolution it changes no resolution and no wait set.
C16_UsageFaultOnce ==
  [][\A t \in Threads : FaultStep(t) =>
       IF result[FaultTarget(t)].set
         THEN result' = result /\ waiters' = waiters
         ELSE /\ result' = [result EXCEPT ![FaultTarget(t)] =
                   newUsageFaultResult(ErrSelfDependency(th[t].failed))]
              /\ waiters' = [waiters EXCEPT ![FaultTarget(t)] = {}]]_vars

\* A goroutine that blocked in cond.Wait has been woken by a fault and has
\* returned it, and a goroutine walking its fault list has just applied
\* resolveUsageFault to a request that held another resolution, which is
\* still there.
C16_Witness ==
  /\ \E u \in Threads, r \in Requests :
       Returned(u, r) /\ th[u].waited /\ IsFault(th[u].got)
  /\ \E t \in Threads :
       /\ th[t].pc = "fault" /\ th[t].idx > 1
       /\ result[th[t].failed[th[t].idx - 1]] #
            newUsageFaultResult(ErrSelfDependency(th[t].failed))

AwaitsMultiplePanic == "worker awaits multiple promises"

\* C17: no goroutine gets into Await while the awaiting slot of its worker
\* is set, and none gets past the CompareAndSwap of the slow path while it
\* is set; the call then ends in the panic "worker awaits multiple promises",
\* whether the request it names is resolved or not, and the panicking step
\* leaves every awaiting slot and every resolution as it was.
C17_AwaitWhileAwaitingPanics ==
  [][/\ \A t \in Threads :
          /\ (th[t].pc # "a_fast" /\ th'[t].pc = "a_fast") =>
                awaiting[tworker[t]] = NoReq
          /\ (th[t].pc = "a_cas" /\ awaiting[tworker[t]] # NoReq) =>
                th'[t] = th[t]
     /\ (Running /\ panicked' # "none" /\ th[panicAt'.t].pc \in {"idle", "a_cas"}
          /\ awaiting[tworker[panicAt'.t]] # NoReq
          /\ panicked' \notin ReportPanics) =>
            panicked' = AwaitsMultiplePanic
     /\ (Running /\ panicked' = AwaitsMultiplePanic) =>
          /\ awaiting' = awaiting
          /\ result' = result]_vars

\* A goroutine has called Await on a resolved request while another
\* goroutine of the same worker was blocked on another request: the call
\* panicked and the slot still holds the other request.
C17_Witness ==
  /\ panicked = AwaitsMultiplePanic
  /\ th[panicAt.t].pc = "idle"
  /\ result[panicAt.r].set
  /\ awaiting[tworker[panicAt.t]] \notin {NoReq, panicAt.r}
  /\ \E u \in Threads :
       u # panicAt.t /\ tworker[u] = tworker[panicAt.t] /\ th[u].pc = "wait"

\* NewWorker(delegated...) has returned worker n.
Delegate(n) == origin[n].by # NoWorker /\ th[n].pc # "off"

\* C18: with callers that delegate only requests their own worker is
\* responsible for, the step on which NewWorker returns worker n leaves n
\* responsible for every request delegated to it and awaiting nothing; from
\* then on the worker that delegated a request is never responsible for it
\* again, a Report on it by that worker never returns and ends in the
\* wrong-worker panic, and a Report by the worker now responsible, n or the
\* worker the request was delegated to last, never ends in that panic.
C18_DelegationMovesResponsibility ==
  [][/\ \A t \in Threads : (th[t].pc = "nw" /\ th'[t].pc # "nw") =>
          /\ awaiting'[th[t].newW] = NoReq
          /\ \A r \in origin[th[t].newW].reqs : responsible'[r] = th[t].newW
     /\ \A n \in Workers : Delegate(n) => \A r \in origin[n].reqs :
          /\ responsible[r] # origin[n].by
          /\ reported'[r] # reported[r] =>
               /\ reported'[r].by # origin[n].by
               /\ reported'[r].by = responsible[r]
          /\ (Running /\ panicked' \in ReportPanics /\ panicAt'.r = r) =>
               /\ tworker[panicAt'.t] = origin[n].by => panicked' = WrongWorkerPanic
               /\ tworker[panicAt'.t] = responsible[r] => panicked' # WrongWorkerPanic]_vars

\* A request was delegated together with another one and then delegated
\* again; the last delegate's Report was stored, and a Report by one of the
\* workers that had delegated it has panicked.
C18_Witness ==
  \E n \in Workers, r \in Requests :
    /\ Delegate(n) /\ Delegate(origin[n].by)
    /\ r \in origin[n].reqs \cap origin[origin[n].by].reqs
    /\ Cardinality(origin[origin[n].by].reqs) = 2
    /\ responsible[r] = n
    /\ reported[r].set /\ reported[r].by = n /\ result[r] = reported[r].res
    /\ panicked = WrongWorkerPanic /\ panicAt.r = r
    /\ tworker[panicAt.t] \in {origin[n].by, origin[origin[n].by].by}

\* C19: the cleanup of a dropped worker changes the resolution of no request
\* that is resolved, and an Await that has returned on a resolved request
\* whose responsible worker was dropped holds the stored resolution.
C19_DropKeepsResolution ==
  /\ [][dropped' # dropped =>
          \A r \in Requests : result[r].set => result'[r] = result[r]]_vars
  /\ [](\A t \in Threads, r \in Requests :
          (Returned(t, r) /\ responsible[r] \in dropped /\ result[r].set) =>
             th[t].got = result[r])

\* The responsible worker reported a request and was dropped; the Await of
\* another worker has returned the report.
C19_Witness ==
  \E t \in Threads, r \in Requests :
    /\ responsible[r] \in dropped
    /\ reported[r].set /\ reported[r].by = responsible[r]
    /\ result[r] = reported[r].res
    /\ tworker[t] \notin dropped
    /\ Returned(t, r) /\ th[t].got = result[r]

\* C20: an Await that has returned holds a set resolution, the one stored
\* in its request, and that resolution is of exactly one kind: explicit, the
\* value and error of a Report that returned; or the ErrSelfDependency fault
\* of a cycle detection, whose list names the request; or the ErrUnresolved
\* fault of the request, its responsible worker having been dropped.
C20_AwaitReturnsStoredResolution ==
  \A t \in Threads, r \in Requests : Returned(t, r) =>
    /\ th[t].got.set
    /\ th[t].got = result[r]
    /\ \/ /\ IsExplicit(result[r])
          /\ reported[r].set /\ reported[r].res = result[r]
       \/ /\ ~IsExplicit(result[r]) /\ IsSelfDep(result[r])
          /\ \E i \in 1..Len(result[r].err.ids) : result[r].err.ids[i] = r
       \/ /\ ~IsExplicit(result[r]) /\ IsUnresolved(result[r])
          /\ result[r].err = ErrUnresolved(r)
          /\ responsible[r] \in dropped

\* One Await that blocked has returned a reported resolution and another
\* has returned the fault of a cycle detection.
C20_Witness ==
  \E t, u \in Threads, r, q \in Requests :
    /\ Returned(t, r) /\ th[t].waited /\ IsExplicit(th[t].got)
    /\ Returned(u, q) /\ ~IsExplicit(th[u].got) /\ IsSelfDep(th[u].got)

\* C21: of the RequestIDs taken from requests at any times, two are Equal
\* exactly when they were taken from the same request, whether or not the
\* request has been reclaimed since; Equal is reflexive, symmetric and
\* transitive on them.
C21_IdEqualityIsIdentity ==
  /\ \A x, y \in heap.seen : Equal(x.id, y.id) <=> x.req = y.req
  /\ \A x, y, z \in heap.seen :
       /\ Equal(x.id, x.id)
       /\ Equal(x.id, y.id) => Equal(y.id, x.id)
       /\ (Equal(x.id, y.id) /\ Equal(y.id, z.id)) => Equal(x.id, z.id)

\* The id of a request was taken, the request was reclaimed, and the id of
\* a later request that lies at the same address was taken.
C21_Witness ==
  \E x, y \in heap.seen :
    /\ x.req # y.req
    /\ x.req \notin heap.live /\ y.req \in heap.live
    /\ heap.addr[x.req] = heap.addr[y.req]
    /\ ~Equal(x.id, y.id)

\* C22: Once.RequestID is the 'no request' id as long as no Do call was made
\* on the Once and the id of the Once's request from the first Do call on;
\* the first Do call opens that request, a later Do call opens none and
\* leaves promise and id as they are, and every Do call awaits that request.
C22_OnceHasOneRequest ==
  /\ [](\A o \in Onces :
          /\ called[o] = << >> => (RequestID(o) = NoReq /\ isNil(oncePromise[o]))
          /\ called[o] # << >> =>
               (RequestID(o) = oncePromise[o] /\ RequestID(o) \in requests)
          /\ \A p \in Onces : (o # p /\ RequestID(o) # NoReq) => RequestID(o) # RequestID(p)
          /\ \A t \in Threads : (InDo(t, o) /\ th[t].req # NoReq) =>
               th[t].req = RequestID(o))
  /\ [][\A o \in Onces : called'[o] # called[o] =>
          IF called[o] = << >>
            THEN /\ RequestID(o)' \notin requests
                 /\ requests' = requests \cup {RequestID(o)'}
            ELSE /\ requests' = requests
                 /\ RequestID(o)' = RequestID(o)
                 /\ oncePromise'[o] = oncePromise[o]]_vars

\* Two Do calls on one Once await its request while no Do call has been
\* made on the other Once.
C22_Witness ==
  \E o, p \in Onces, t, u \in Threads :
    /\ t # u /\ Len(called[o]) >= 2
    /\ InDo(t, o) /\ th[t].req = RequestID(o)
    /\ InDo(u, o) /\ th[u].req = RequestID(o)
    /\ called[p] = << >> /\ RequestID(p) = NoReq

\* C23: every request that was created has a responsible worker, one of the
\* workers allocated so far, in every state, and no step takes it away.
C23_AlwaysOneResponsible ==
  /\ [](\A r \in requests : responsible[r] # NoWorker /\ responsible[r] \in workers)
  /\ [][\A r \in requests : responsible'[r] # NoWorker]_vars

\* A NewWorker call is halfway through its delegation loop: one request
\* already points at the new worker, the other still at the caller's.
C23_Witness ==
  \E t \in Threads, r, q \in requests :
    /\ th[t].pc = "nw" /\ q \in th[t].deleg
    /\ responsible[q] = tworker[t]
    /\ responsible[r] = th[t].newW

\* The goroutine is in await between the two CompareAndSwaps.
HoldsSlot(t) ==
  th[t].pc \in {"walk", "w_await", "w_fresh", "w_resp", "fault", "lock",
                "check", "wait", "exit"}

\* C24: with one goroutine per worker, a worker's awaiting slot holds a
\* request or nothing, and it holds the request of its goroutine's Await
\* exactly while that Await is between its two CompareAndSwaps; the slot
\* changes only from nothing to that request at the first and from that
\* request to nothing at the deferred one, which therefore never fails: no
\* run ends in the panic "worker awaits multiple promises".
C24_SlotOwnedByOwnAwait ==
  /\ [](/\ panicked # AwaitsMultiplePanic
        /\ \A t \in Threads :
             /\ awaiting[tworker[t]] \in requests \cup {NoReq}
             /\ HoldsSlot(t) => awaiting[tworker[t]] = th[t].req
             /\ ~HoldsSlot(t) => awaiting[tworker[t]] = NoReq)
  /\ [][\A t \in Threads : awaiting'[tworker[t]] # awaiting[tworker[t]] =>
          \/ /\ th[t].pc = "a_cas" /\ awaiting[tworker[t]] = NoReq
             /\ awaiting'[tworker[t]] = th[t].req
          \/ /\ th[t].pc = "exit" /\ awaiting[tworker[t]] = th[t].req
             /\ awaiting'[tworker[t]] = NoReq /\ th'[t].pc = "ret"]_vars

\* A worker that blocked has returned and its slot is empty again, while
\* another worker holds its slot.
C24_Witness ==
  \E t, u \in Threads :
    /\ th[t].pc = "ret" /\ th[t].waited /\ awaiting[tworker[t]] = NoReq
    /\ HoldsSlot(u) /\ awaiting[tworker[u]] = th[u].req

\* C25: when an Await has returned, after blocking or with a cycle fault or
\* at once, the awaiting slot of its worker is empty; the next Await of the
\* goroutine does not end in the awaits-multiple panic; and a walk of another
\* worker that loads the slot of a worker whose goroutine is not inside
\* await loads nothing and ends there.
C25_SlotEmptyAfterReturn ==
  /\ [](\A t \in Threads : th[t].pc = "ret" => awaiting[tworker[t]] = NoReq)
  /\ [][/\ \A t \in Threads :
             (th[t].pc \in {"ret", "idle"} /\ panicked' = AwaitsMultiplePanic) =>
               panicAt'.t # t
        /\ \A u \in Threads :
             (/\ th[u].pc = "w_await" /\ th'[u] # th[u]
              /\ \E t \in Threads : tworker[t] = th[u].curWorker /\ ~HoldsSlot(t)) =>
               /\ th'[u].nextReq = NoReq
               /\ th'[u].pc \notin {"w_fresh", "w_resp", "w_await"}]_vars

\* An Await has returned, after blocking or with a fault, and the walk of
\* another worker has reached the worker that returned and is about to load
\* its slot.
C25_Witness ==
  \E t, u \in Threads :
    /\ t # u
    /\ th[t].pc = "ret" /\ (th[t].waited \/ IsFault(th[t].got))
    /\ awaiting[tworker[t]] = NoReq
    /\ th[u].pc = "w_await" /\ th[u].curWorker = tworker[t]

\* C26: a resolution that is set stays set on every step, and an explicit
\* resolution is the same after every step, whether the step is a Report, a
\* fault of a cycle detection that lists the request, or the cleanup of a
\* dropped worker.
C26_ResolutionMonotonic ==
  [][\A r \in Requests :
       /\ result[r].set => result'[r].set
       /\ IsExplicit(result[r]) =>
            (IsExplicit(result'[r]) /\ resultRet(result'[r]) = resultRet(result[r]))]_vars

\* A cycle detection listed a request that held an explicit resolution and
\* has been through its fault loop; the request still holds the resolution
\* that was reported.
C26_Witness ==
  \E r, q \in Requests :
    /\ IsFault(result[r]) /\ IsSelfDep(result[r])
    /\ \E i \in 1..Len(result[r].err.ids) : result[r].err.ids[i] = q
    /\ IsExplicit(result[q]) /\ result[q] = reported[q].res
    /\ \A t \in Threads : th[t].pc # "fault"

\* C27: the step of an Await that finds its request resolved on the fast
\* path returns the stored resolution and changes nothing else: no awaiting
\* slot, no responsible worker, no resolution, no lock and no wait set; the
\* goroutine goes straight to the return, not into a walk, and its worker
\* was awaiting nothing.
C27_FastPathFrame ==
  [][\A t \in Threads :
       (th[t].pc = "a_fast" /\ result[th[t].req].set /\ th'[t] # th[t]) =>
         /\ awaiting[tworker[t]] = NoReq
         /\ th'[t].pc = "ret" /\ th'[t].got = result[th[t].req]
         /\ awaiting' = awaiting /\ responsible' = responsible
         /\ result' = result /\ mu' = mu /\ waiters' = waiters
         /\ \A u \in Threads \ {t} : th'[u] = th[u]]_vars

\* A worker has reported its own request and its Await on it has returned
\* the report at once.
C27_Witness ==
  \E t \in Threads, r \in Requests :
    /\ Returned(t, r) /\ ~th[t].waited /\ ~th[t].self
    /\ responsible[r] = tworker[t] /\ reported[r].by = tworker[t]
    /\ IsExplicit(result[r]) /\ th[t].got = result[r]
    /\ awaiting[tworker[t]] = NoReq

\* C28: the step that creates a request leaves it with the caller's worker
\* as responsible worker, with no resolution, and in that worker's
\* responsibleFor set.
C28_NewRequestRegisters ==
  [][\A r \in requests' \ requests :
       /\ responsible'[r] \in workers'
       /\ ~result'[r].set
       /\ r \in responsibleFor'[responsible'[r]]]_vars

\* C29: the list of a collecting walk, which runs when the first walk of an
\* Await reported a cycle, starts with the request of the Await; after the
\* fault loop that request is resolved, and the Await never waits on the
\* condition.
C29_OwnRequestCollected ==
  \A t \in Threads : th[t].collect =>
    /\ th[t].pc \in {"w_await", "w_fresh", "w_resp", "fault"} =>
         (Len(th[t].failed) >= 1 /\ th[t].failed[1] = th[t].req)
    /\ th[t].pc \in {"lock", "check", "exit"} => result[th[t].req].set
    /\ th[t].pc # "wait" /\ ~th[t].waited

\* The collecting walk broke off before it came back to the requesting
\* worker, the graph having changed since the first walk; its list starts
\* with the request of the Await all the same.
C29_Witness ==
  \E t \in Threads :
    /\ th[t].collect /\ th[t].pc = "fault" /\ th[t].idx = 1
    /\ th[t].failed[1] = th[t].req
    /\ responsible[th[t].failed[Len(th[t].failed)]] # tworker[t]

\* C30: the list of a collecting walk, one request for the start and one per
\* hop, is never longer than the number of workers there are to be blocked in
\* Await, whatever chain the walk follows.
C30_WalkBounded ==
  \A t \in Threads :
    th[t].collect /\ th[t].pc \in {"w_await", "w_fresh", "w_resp", "fault"} =>
      Len(th[t].failed) <= Cardinality(workers)

\* Worker w is in the locked part of an Await, its walk behind it, and the
\* request it awaits is unset.
PastWalk(w) ==
  \E t \in Threads :
    /\ tworker[t] = w
    /\ th[t].pc \in {"lock", "check", "wait"}
    /\ awaiting[w] = th[t].req
    /\ ~result[th[t].req].set

\* A set of workers, each past its walk and awaiting an unset request whose
\* responsible worker is in the set again: a cycle nobody will detect.
UndetectedCycle ==
  \E S \in SUBSET workers :
    /\ S # {}
    /\ \A w \in S : PastWalk(w) /\ responsible[awaiting[w]] \in S

\* C31: whatever the interleaving of Awaits, delegations and Reports, the
\* workers of a cycle of unset requests are never all past their walks.
C31_NoUndetectedCycle == ~UndetectedCycle

\* A cycle of unset requests runs through a request that was handed on to a
\* worker made by NewWorker, and the worker awaiting that request is already
\* in cond.Wait: its walk ended before the cycle was closed.
C31_Witness ==
  \E t \in Threads :
    /\ scen = "handoff"
    /\ th[t].pc = "wait"
    /\ t \in waiters[th[t].req]
    /\ responsible[th[t].req] = 3
    /\ OnCycle(awaiting, responsible, result, tworker[t])

\* Goroutine t is in the locked part of an Await on a request whose
\* resolution is installed: about to lock, holding the lock, or in cond.Wait.
InLockedWait(t) ==
  /\ th[t].pc \in {"lock", "check", "wait"}
  /\ result[th[t].req].set

\* C32: no wake-up is lost: a goroutine in the locked part of an Await on a
\* request whose resolution is installed eventually returns from that Await.
C32_NoLostWakeup ==
  \A t \in Threads : InLockedWait(t) ~> (th[t].pc = "ret" \/ ~Running)

\* A goroutine went into cond.Wait before the resolution was stored and has
\* been taken off the wait set by the broadcast, not yet holding the lock.
C32_Witness ==
  \E t \in Threads :
    /\ th[t].pc = "wait" /\ th[t].waited
    /\ t \notin waiters[th[t].req]
    /\ result[th[t].req].set

\* C33: an Await that has returned a usage-fault resolution returned the
\* zero value of T and the error of the fault stored in the request; one that
\* has returned an explicit resolution returned the value and the error the
\* Report was given, whether that error is nil or not.
C33_AwaitValueAndError ==
  \A t \in Threads, r \in Requests : Returned(t, r) =>
    IF IsExplicit(th[t].got)
      THEN /\ reported[r].set
           /\ RetValue(t) = reported[r].res.value
           /\ RetErr(t) = reported[r].res.err
           /\ RetErr(t).kind \in {"nil", "user"}
      ELSE /\ RetValue(t) = ZeroValue
           /\ RetErr(t) = result[r].err
           /\ RetErr(t).kind \in {"selfdep", "unresolved"}

\* One Await has returned the zero value with a fault's error, another the
\* reported value, here the zero value too, with the reported error, which
\* is not nil.
C33_Witness ==
  \E t, u \in Threads, r, q \in Requests :
    /\ Returned(t, r) /\ ~IsExplicit(th[t].got)
    /\ RetValue(t) = ZeroValue /\ RetErr(t).kind = "selfdep"
    /\ Returned(u, q) /\ IsExplicit(th[u].got)
    /\ RetValue(u) = ZeroValue /\ RetErr(u) = UserErr

NilValuePanic == "panic: explicit resolution with nil value"

\* C34: a Report whose value is the nil or zero value of T does not panic
\* for that value, and when it has returned on a request that holds no usage
\* fault, the request holds the explicit resolution with that value and the
\* reported error.
C34_NilReportIsExplicit ==
  /\ panicked # NilValuePanic
  /\ \A r \in Requests :
       (reported[r].set /\ reported[r].res.value \in {NilValue, ZeroValue}
          /\ ~IsFault(result[r])) =>
         (IsExplicit(result[r]) /\ result[r] = reported[r].res)

\* Request r was delegated by worker a to worker n, made by a's NewWorker
\* call, n is still responsible for it, and a's handle has been cleaned up.
HandedOnAndDropped(a, n, r) ==
  /\ origin[n].by = a /\ r \in origin[n].reqs
  /\ responsible[r] = n
  /\ a \in dropped

\* C35: the cleanup of a worker's handle leaves every request alone that the
\* worker delegated before; such a request never holds ErrUnresolved, the
\* explicit resolution it holds is the one the new worker reported, and an
\* Await on it that has returned holds the stored resolution.
C35_DropSparesDelegated ==
  /\ [][\A a, n \in Workers, r \in Requests :
          (origin[n].by = a /\ r \in origin[n].reqs /\ responsible[r] = n
             /\ a \in dropped' /\ a \notin dropped) =>
            result'[r] = result[r]]_vars
  /\ [](\A a, n \in Workers, r \in Requests : HandedOnAndDropped(a, n, r) =>
          /\ ~IsUnresolved(result[r])
          /\ IsExplicit(result[r]) =>
                (reported[r].by = n /\ result[r] = reported[r].res)
          /\ \A t \in Threads : Returned(t, r) =>
                (th[t].got = result[r] /\ RetErr(t).kind # "unresolved"))

\* Worker 2 handed request 2 on to worker 3 and was dropped with the request
\* unresolved; worker 1, which was waiting for the request, has returned the
\* value worker 3 reported.
C35_Witness ==
  \E a, n \in Workers, r \in Requests, t \in Threads :
    /\ HandedOnAndDropped(a, n, r)
    /\ Returned(t, r) /\ th[t].waited
    /\ IsExplicit(th[t].got) /\ reported[r].by = n
    /\ RetValue(t) = "v" /\ RetErr(t) = NilErr

====
